---- MODULE Spec2Model ----
(***************************************************************************)
(* A model of spotify-cleaner: the API client (spotify_client.py), the     *)
(* token flow with its callback listener (auth.py), and the filter engine  *)
(* and commands (cli.py, interactive.py).  In the client every HTTP        *)
(* attempt of the request primitive is one step and the answer of the      *)
(* remote side is chosen nondeterministically; in the listener every       *)
(* thread takes its own steps; a command or a filter call is one step over *)
(* every way its client calls can end.                                     *)
(***************************************************************************)
EXTENDS Integers, Sequences, FiniteSets, TLC

VARIABLES
    user_data,      \* SpotifyClient._user_data
    cpc,            \* "idle": no client method runs; "request": inside _request;
                    \* "loop": at the while of get_all_playlists
    call,           \* the client method that is running (or ran last)
    req,            \* the arguments of the _request invocation in progress
    answers,        \* the HTTP answers the invocation in progress has received
    slept,          \* the time.sleep durations of the invocation in progress
    wire,           \* the HTTP requests the invocation in progress has sent
    prim,           \* how the last finished _request invocation ended
    reqs,           \* the _request invocations made by the running method
    all_playlists,  \* the accumulator of get_all_playlists
    url,            \* get_all_playlists: the page to fetch next, None to stop
    params,         \* get_all_playlists: the query of the next fetch
    failed_page,    \* the page whose request did not deliver, 0 when none
    ret,            \* how the last finished client method ended
    me_first,       \* what the first get_current_user call to return returned
    me_cached,      \* the first profile a get_current_user call returned
    me_returns,     \* get_current_user calls that have returned
    me_http,        \* GET me requests put on the wire since construction
    ncalls,         \* client methods started since construction
    source,         \* the remote listing as get_all_playlists finds it: N items
                    \* served in pages of L
    CLIENT_ID,      \* auth.CLIENT_ID, None when SPOTIFY_CLIENT_ID is not set
    CLIENT_SECRET,  \* auth.CLIENT_SECRET, None when SPOTIFY_CLIENT_SECRET is not set
    keyring,        \* the refresh_token entry of the secret store, None when absent
    authorization_code, \* the global auth.authorization_code
    apc,            \* where get_access_token stands; "idle" when it is not running
    force_reauth,   \* the argument of the running get_access_token
    refresh_token,  \* get_access_token: what the secret store held when read
    net,            \* the network calls of the running get_access_token, in order
    kr_reads,       \* reads of the secret store by the running get_access_token
    kr_writes,      \* values written to the secret store by the running call
    flows,          \* _perform_auth_flow invocations of the running call
    refresh_resp,   \* the answer to the refresh exchange of the running call
    served,         \* the callback requests the listener of the running flow has
                    \* handled, in order
    shutdown_request, \* the listener's __shutdown_request flag
    is_shut_down,   \* the listener's __is_shut_down event
    killers,        \* the shutdown threads the handler has started on the listener:
                    \* "run" before, "wait" inside and "done" after shutdown()
    aret,           \* how the last finished get_access_token ended
    nauth,          \* get_access_token calls started in this process
    listing,        \* the playlists the account follows, in the order of the API
    playlists,      \* _apply_filters_to_playlists: the list the last call was given
    filters,        \* the filter criteria of the last call or command
    filtered_playlists, \* how the last _apply_filters_to_playlists call ended
    earlier,        \* the _apply_filters_to_playlists call before the last
    nfilter,        \* _apply_filters_to_playlists calls made on the client directly
    command,        \* the command that ran, with its options
    branch,         \* the branch the command took: "filter", "picker" or "page"
    api,            \* the client methods the command called, in order
    paged_playlists, \* list: the playlists it displays
    playlists_to_unfollow, \* clean: the playlists it selected
    confirm,        \* clean: the answer to its confirmation prompt, "" when not asked
    cend            \* how the command ended: "return" or "raise"

cvars == <<user_data, cpc, call, req, answers, slept, wire, prim, reqs, all_playlists,
           url, params, failed_page, ret, me_first, me_cached, me_returns, me_http,
           ncalls, source>>

avars == <<CLIENT_ID, CLIENT_SECRET, keyring, authorization_code, apc, force_reauth,
           refresh_token, net, kr_reads, kr_writes, flows, refresh_resp, served,
           shutdown_request, is_shut_down, killers, aret, nauth>>

fvars == <<listing, playlists, filters, filtered_playlists, earlier, nfilter, command,
           branch, api, paged_playlists, playlists_to_unfollow, confirm, cend>>

vars == <<cvars, avars, fvars>>

\* ------------------------------------------------------------------ bounds
MaxCalls == 3       \* client methods called on one instance
MaxItems == 3       \* items of the remote listing
MaxPageSize == 2    \* page size of the remote listing
MaxAuthCalls == 2   \* get_access_token calls in one process
MaxRequests == 2    \* requests sent to the local listener during one flow
MaxList == 2        \* playlists the account follows
MaxFilterCalls == 2 \* direct calls of the filter engine on one client
MaxPage == 2        \* --page of the list command
MaxLimit == 2       \* --limit of the list command

\* --------------------------------------------------------------- constants
API_BASE_URL == "https://api.spotify.com/v1/"
DefaultRetries == 3
DefaultRetryAfter == 5
AllLimit == 50

None == [none |-> TRUE]

PlaylistIds == {"p1"}
DisplayNames == {"Ann", "Bob"}

\* ------------------------------------------------------- int(Retry-After)
Digits == <<"0", "1", "2", "3", "4", "5", "6", "7", "8", "9">>

IsDigit(c) == \E i \in 1..10 : Digits[i] = c

DigitValue(c) == (CHOOSE i \in 1..10 : Digits[i] = c) - 1

RECURSIVE DecimalValue(_)
DecimalValue(text) ==
    IF text = <<>> THEN 0
    ELSE 10 * DecimalValue(SubSeq(text, 1, Len(text) - 1)) + DigitValue(text[Len(text)])

\* int(s) of a header text: its value, or -1 for the ValueError of a text that
\* is not a decimal number.
PyInt(text) ==
    IF text # <<>> /\ \A i \in 1..Len(text) : IsDigit(text[i])
    THEN DecimalValue(text)
    ELSE -1

\* int(response.headers.get("Retry-After", 5))
RetryAfterSeconds(headers) ==
    IF headers.has_retry_after THEN PyInt(headers.retry_after) ELSE DefaultRetryAfter

\* ----------------------------------------------------------- remote side
NoHeader == [has_retry_after |-> FALSE, retry_after |-> <<>>]
Header(text) == [has_retry_after |-> TRUE, retry_after |-> text]

RetryAfterHeaders ==
    {NoHeader, Header(<<"2">>), Header(<<"W", "e", "d">>)}

NetworkError == [status |-> 0, headers |-> NoHeader, content |-> FALSE, json |-> None]
Response(status, headers, content, json) ==
    [status |-> status, headers |-> headers, content |-> content, json |-> json]

\* The listings a call of get_all_playlists can meet.
Sources == [N : 0..MaxItems, L : 1..MaxPageSize]
NoSource == [N |-> 0, L |-> 1]

Endpoint(base, path, id, offset) ==
    [base |-> base, path |-> path, id |-> id, offset |-> offset]

Min(a, b) == IF a < b THEN a ELSE b

\* The page of the listing that starts after `start` items.
PageBody(start) ==
    [items |-> [i \in 1..(Min(start + source.L, source.N) - start) |-> start + i],
     next |-> IF start + source.L < source.N
              THEN Endpoint(API_BASE_URL, "me/playlists", "", start + source.L)
              ELSE None,
     total |-> source.N]

\* The bodies a 2xx answer to request rq can carry.
BodiesFor(rq) ==
    IF rq.endpoint.path = "me"
    THEN {[id |-> <<"u", "1">>, display_name |-> d] : d \in DisplayNames}
    ELSE IF rq.endpoint.path = "me/playlists"
    THEN {PageBody(rq.endpoint.offset)}
    ELSE {[snapshot_id |-> "s1"]}

\* Every outcome of requests.request when a 2xx answer carries one of bodies.
AnswersTo(bodies) ==
    {NetworkError}
    \cup {Response(200, NoHeader, TRUE, b) : b \in bodies}
    \cup {Response(200, NoHeader, FALSE, None), Response(404, NoHeader, TRUE, None)}
    \cup {Response(429, h, TRUE, None) : h \in RetryAfterHeaders}

\* Every outcome of requests.request for rq.
AnswersFor(rq) == AnswersTo(BodiesFor(rq))

\* ------------------------------------------------------ SpotifyClient
Request(method, endpoint, query) ==
    [method |-> method, endpoint |-> endpoint, params |-> query, json |-> None,
     retries |-> DefaultRetries]

\* url = endpoint if endpoint.startswith("http") else API_BASE_URL + endpoint
Url(endpoint) ==
    IF endpoint.base # "" THEN endpoint ELSE [endpoint EXCEPT !.base = API_BASE_URL]

WireOf(rq) ==
    [method |-> rq.method, url |-> Url(rq.endpoint), params |-> rq.params, json |-> rq.json]

Return(v) == [kind |-> "return", value |-> v, exc |-> "", sleep |-> 0]
Raise(e) == [kind |-> "raise", value |-> None, exc |-> e, sleep |-> 0]
Retry(s) == [kind |-> "retry", value |-> None, exc |-> "", sleep |-> s]

RetryMutantOneMore(ans, retries) == ans.status = 429 /\ retries >= 0
\* if response.status_code == 429 and retries > 0
RateLimited(ans, retries) == ans.status = 429 /\ retries > 0

\* One pass through the body of _request with answer ans: retry (after a
\* sleep), return, or let an exception escape.
RequestStep(rq, ans) ==
    IF ans.status = 0 THEN Return(None)
    ELSE IF RateLimited(ans, rq.retries)
    THEN IF RetryAfterSeconds(ans.headers) < 0
         THEN Raise("ValueError")
         ELSE Retry(RetryAfterSeconds(ans.headers))
    ELSE IF ans.status >= 400 THEN Return(None)
    ELSE Return(IF ans.content THEN ans.json ELSE None)

\* except requests.HTTPError
IsHTTPError(exc) == exc = "HTTPError"

Truthy(v) == v # None

\* No _request invocation has ended since the last one was entered.
NoOutcome == [kind |-> "", value |-> None, exc |-> ""]

Ended(op, kind, value, exc) == [op |-> op, kind |-> kind, value |-> value, exc |-> exc]

ReqOf(rq) == [method |-> rq.method, endpoint |-> rq.endpoint, params |-> rq.params]

\* self._request(...) is entered: nothing of it is on the wire yet.
EnterRequest(rq, before) ==
    /\ cpc' = "request"
    /\ req' = rq
    /\ wire' = <<>>
    /\ answers' = <<>>
    /\ slept' = <<>>
    /\ prim' = NoOutcome
    /\ reqs' = Append(before, ReqOf(rq))

\* No client method has ended since the last one was called.
NoResult == Ended("", "", None, "")

Finish(op, kind, value, exc) ==
    /\ cpc' = "idle"
    /\ ret' = Ended(op, kind, value, exc)

NoRequest == Request("", Endpoint("", "", "", 0), None)

\* A client method is called on the instance: the locals and the logs of the
\* call before it are gone.
Begin(op, arg) ==
    /\ cpc = "idle"
    /\ ncalls < MaxCalls
    /\ ncalls' = ncalls + 1
    /\ call' = [op |-> op, arg |-> arg]
    /\ all_playlists' = <<>>
    /\ failed_page' = 0

\* unfollow_playlist(playlist_id), up to its HTTP attempt
CallUnfollow ==
    \E id \in PlaylistIds :
        /\ Begin("unfollow_playlist", id)
        /\ EnterRequest(Request("DELETE",
                                Endpoint("", "playlists/{id}/followers", id, 0), None),
                        <<>>)
        /\ ret' = NoResult
        /\ url' = None /\ params' = None
        /\ source' = NoSource
        /\ UNCHANGED <<user_data, me_first, me_cached, me_returns, me_http>>
        /\ UNCHANGED <<avars, fvars>>

CacheMissMutantAlways(cached) == TRUE
\* if self._user_data is None
CacheMiss(cached) == cached = None

\* Bookkeeping: a get_current_user call returns value v, with h GET me
\* requests sent since construction.
Returned(v, h) ==
    /\ me_returns' = me_returns + 1
    /\ me_first' = IF me_first.set THEN me_first
                   ELSE [set |-> TRUE, value |-> v, http |-> h]
    /\ me_cached' = IF me_cached.set \/ v = None THEN me_cached
                    ELSE [set |-> TRUE, value |-> v, http |-> h]

\* get_current_user(): the cached value, or up to the HTTP attempt
CallCurrentUser ==
    /\ Begin("get_current_user", "")
    /\ IF CacheMiss(user_data)
       THEN /\ EnterRequest(Request("GET", Endpoint("", "me", "", 0), None), <<>>)
            /\ ret' = NoResult
            /\ UNCHANGED <<me_first, me_cached, me_returns>>
       ELSE /\ Finish("get_current_user", "return", user_data, "")
            /\ Returned(user_data, me_http)
            /\ reqs' = <<>> /\ wire' = <<>> /\ answers' = <<>> /\ slept' = <<>>
            /\ req' = NoRequest /\ prim' = NoOutcome
    /\ url' = None /\ params' = None
    /\ source' = NoSource
    /\ UNCHANGED <<user_data, me_http>>
    /\ UNCHANGED <<avars, fvars>>

\* get_all_playlists(), up to the while loop
CallAllPlaylists ==
    /\ Begin("get_all_playlists", "")
    /\ url' = Endpoint("", "me/playlists", "", 0)
    /\ params' = [limit |-> AllLimit]
    /\ cpc' = "loop"
    /\ reqs' = <<>> /\ wire' = <<>> /\ answers' = <<>> /\ slept' = <<>>
    /\ req' = NoRequest /\ prim' = NoOutcome
    /\ ret' = NoResult
    /\ source' \in Sources
    /\ UNCHANGED <<user_data, me_first, me_cached, me_returns, me_http>>
    /\ UNCHANGED <<avars, fvars>>

\* while url: the next self._request, or return all_playlists
Loop ==
    /\ cpc = "loop"
    /\ IF Truthy(url)
       THEN /\ EnterRequest(Request("GET", url, params), reqs)
            /\ UNCHANGED ret
       ELSE /\ Finish(call.op, "return", [list |-> all_playlists], "")
            /\ UNCHANGED <<req, wire, answers, slept, prim, reqs>>
    /\ UNCHANGED <<user_data, call, all_playlists, url, params, failed_page,
                   me_first, me_cached, me_returns, me_http, ncalls, source>>
    /\ UNCHANGED <<avars, fvars>>

\* unfollow_playlist after self._request(...) ended with out
UnfollowResult(out) ==
    IF out.kind = "raise"
    THEN IF IsHTTPError(out.exc)
         THEN [kind |-> "return", value |-> [bool |-> FALSE], exc |-> ""]
         ELSE [kind |-> "raise", value |-> None, exc |-> out.exc]
    ELSE [kind |-> "return", value |-> [bool |-> TRUE], exc |-> ""]

UnfollowAfter(out) ==
    /\ Finish(call.op, UnfollowResult(out).kind, UnfollowResult(out).value,
              UnfollowResult(out).exc)
    /\ UNCHANGED <<user_data, all_playlists, url, params, failed_page,
                   me_first, me_cached, me_returns>>

CurrentUserAfterMutantNoStore(out) ==
    /\ IF out.kind = "raise"
       THEN /\ Finish(call.op, "raise", None, out.exc)
            /\ UNCHANGED <<user_data, me_first, me_cached, me_returns>>
       ELSE /\ UNCHANGED user_data
            /\ Finish(call.op, "return", out.value, "")
            /\ Returned(out.value, me_http')
    /\ UNCHANGED <<all_playlists, url, params, failed_page>>
\* get_current_user after self._request(...) ended with out
CurrentUserAfter(out) ==
    /\ IF out.kind = "raise"
       THEN /\ Finish(call.op, "raise", None, out.exc)
            /\ UNCHANGED <<user_data, me_first, me_cached, me_returns>>
       ELSE /\ user_data' = out.value
            /\ Finish(call.op, "return", user_data', "")
            /\ Returned(user_data', me_http')
    /\ UNCHANGED <<all_playlists, url, params, failed_page>>

ExtendMutantPrepend(acc, items) == items \o acc
\* all_playlists.extend(data["items"])
Extend(acc, items) == acc \o items

\* if not data: break
StopsListing(data) == ~Truthy(data)

\* get_all_playlists after self._request(...) ended with out: the rest of the
\* loop body
AllPlaylistsAfter(out) ==
    /\ IF out.kind = "raise"
       THEN /\ failed_page' = Len(reqs)
            /\ IF IsHTTPError(out.exc)
               THEN Finish(call.op, "return", [list |-> all_playlists], "")
               ELSE Finish(call.op, "raise", None, out.exc)
            /\ UNCHANGED <<all_playlists, url, params>>
       ELSE IF StopsListing(out.value)
       THEN /\ failed_page' = Len(reqs)
            /\ Finish(call.op, "return", [list |-> all_playlists], "")
            /\ UNCHANGED <<all_playlists, url, params>>
       ELSE /\ all_playlists' = Extend(all_playlists, out.value.items)
            /\ url' = out.value.next
            /\ params' = None
            /\ cpc' = "loop"
            /\ UNCHANGED <<ret, failed_page>>
    /\ UNCHANGED <<user_data, me_first, me_cached, me_returns>>

\* One HTTP attempt of _request: requests.request(...), its answer, and what
\* runs until the next attempt or until the caller takes over.
HttpAttempt ==
    /\ cpc = "request"
    /\ \E ans \in AnswersFor(req) :
        LET out == RequestStep(req, ans) IN
        /\ wire' = Append(wire, WireOf(req))
        /\ answers' = Append(answers, ans)
        /\ me_http' = IF req.endpoint.path = "me" THEN me_http + 1 ELSE me_http
        /\ IF out.kind = "retry"
           THEN /\ slept' = Append(slept, out.sleep)
                /\ req' = [req EXCEPT !.retries = @ - 1]
                /\ UNCHANGED <<user_data, cpc, prim, all_playlists, url, params,
                               failed_page, ret, me_first, me_cached, me_returns>>
           ELSE /\ UNCHANGED <<req, slept>>
                /\ prim' = [kind |-> out.kind, value |-> out.value, exc |-> out.exc]
                /\ IF call.op = "unfollow_playlist" THEN UnfollowAfter(out)
                   ELSE IF call.op = "get_current_user" THEN CurrentUserAfter(out)
                   ELSE AllPlaylistsAfter(out)
    /\ UNCHANGED <<call, reqs, ncalls, source>>
    /\ UNCHANGED <<avars, fvars>>

\* ------------------------------------------------------------ the client
NoCall == [op |-> "", arg |-> ""]

ClientInit ==
    /\ user_data = None
    /\ cpc = "idle"
    /\ call = NoCall
    /\ req = NoRequest
    /\ answers = <<>>
    /\ slept = <<>>
    /\ wire = <<>>
    /\ prim = NoOutcome
    /\ reqs = <<>>
    /\ all_playlists = <<>>
    /\ url = None
    /\ params = None
    /\ failed_page = 0
    /\ ret = NoResult
    /\ me_first = [set |-> FALSE, value |-> None, http |-> 0]
    /\ me_cached = [set |-> FALSE, value |-> None, http |-> 0]
    /\ me_returns = 0
    /\ me_http = 0
    /\ ncalls = 0
    /\ source = NoSource

NextClient == CallUnfollow \/ CallCurrentUser \/ CallAllPlaylists \/ Loop \/ HttpAttempt

\* ------------------------------------------------------------- auth.py
Token(t) == [token |-> t]
Code(c) == [code |-> c]

RefreshTokens == {Token("rt1"), Token("rt2")}
AccessTokens == {Token("at1")}
Codes == {Code("c1"), Code("c2")}

\* What the token endpoint can answer: no JSON at all (the POST or
\* response.json() raises), or a JSON object with or without each token.
NoAnswer == [json |-> FALSE, access_token |-> None, refresh_token |-> None]
TokenAnswers ==
    {NoAnswer}
    \cup [json : {TRUE}, access_token : AccessTokens \cup {None},
          refresh_token : RefreshTokens \cup {None}]

\* The callback requests the listener can be sent: with a code parameter, or
\* without one (an error parameter).
Callbacks ==
    {[has_code |-> TRUE, code |-> c] : c \in Codes}
    \cup {[has_code |-> FALSE, code |-> None]}

AuthEnded(kind, value) == [kind |-> kind, value |-> value]
NoAuthResult == AuthEnded("", None)

AuthReturn(value) ==
    /\ apc' = "idle"
    /\ aret' = AuthEnded("return", value)

AuthRaise ==
    /\ apc' = "idle"
    /\ aret' = AuthEnded("raise", None)

\* if force_reauth
Forced(force) == force

\* get_access_token(force_reauth), up to the read of the secret store or the
\* entry of _perform_auth_flow
GetAccessToken ==
    /\ apc = "idle"
    /\ nauth < MaxAuthCalls
    /\ nauth' = nauth + 1
    /\ \E force \in BOOLEAN :
        /\ force_reauth' = force
        /\ IF Forced(force)
           THEN apc' = "flow" /\ flows' = 1
           ELSE apc' = "read" /\ flows' = 0
    /\ refresh_token' = None
    /\ net' = <<>>
    /\ kr_reads' = 0
    /\ kr_writes' = <<>>
    /\ refresh_resp' = NoAnswer
    /\ served' = <<>>
    /\ aret' = NoAuthResult
    /\ UNCHANGED <<CLIENT_ID, CLIENT_SECRET, keyring, authorization_code,
                   shutdown_request, is_shut_down, killers>>
    /\ UNCHANGED <<cvars, fvars>>

\* refresh_token = keyring.get_password(...); if refresh_token
ReadKeyring ==
    /\ apc = "read"
    /\ refresh_token' = keyring
    /\ kr_reads' = kr_reads + 1
    /\ IF Truthy(keyring)
       THEN apc' = "refresh" /\ UNCHANGED flows
       ELSE apc' = "flow" /\ flows' = flows + 1
    /\ UNCHANGED <<CLIENT_ID, CLIENT_SECRET, keyring, authorization_code, force_reauth,
                   net, kr_writes, refresh_resp, served, shutdown_request,
                   is_shut_down, killers, aret, nauth>>
    /\ UNCHANGED <<cvars, fvars>>

\* _refresh_access_token: the value it returns for the JSON answer ans
RefreshResult(ans) ==
    IF ans.access_token # None THEN ans.access_token ELSE None

RotatedMutantAlways(stored, ans) ==
    IF ans.refresh_token # None THEN ans.refresh_token ELSE stored
\* _refresh_access_token: the stored refresh token after the JSON answer ans
Rotated(stored, ans) ==
    IF ans.access_token # None /\ ans.refresh_token # None
    THEN ans.refresh_token
    ELSE stored

FallbackMutantGiveUp(access_token) == FALSE
\* get_access_token: if access_token ... else: return _perform_auth_flow()
FallsBackToFlow(access_token) == ~Truthy(access_token)

\* _refresh_access_token(refresh_token) and what get_access_token does with
\* its result
RefreshExchange ==
    /\ apc = "refresh"
    /\ net' = Append(net, "POST api/token grant_type=refresh_token")
    /\ \E ans \in TokenAnswers :
        /\ IF ~ans.json
           THEN /\ AuthRaise
                /\ refresh_resp' = NoAnswer
                /\ UNCHANGED <<keyring, kr_writes, flows>>
           ELSE /\ refresh_resp' = ans
                /\ keyring' = Rotated(keyring, ans)
                /\ kr_writes' = IF ans.access_token # None /\ ans.refresh_token # None
                                THEN Append(kr_writes, Rotated(keyring, ans))
                                ELSE kr_writes
                /\ IF FallsBackToFlow(RefreshResult(ans))
                   THEN /\ apc' = "flow"
                        /\ flows' = flows + 1
                        /\ UNCHANGED aret
                   ELSE /\ AuthReturn(RefreshResult(ans))
                        /\ UNCHANGED flows
    /\ UNCHANGED <<CLIENT_ID, CLIENT_SECRET, authorization_code, force_reauth,
                   refresh_token, kr_reads, served, shutdown_request, is_shut_down,
                   killers, nauth>>
    /\ UNCHANGED <<cvars, fvars>>

\* if not CLIENT_ID or not CLIENT_SECRET
Configured == Truthy(CLIENT_ID) /\ Truthy(CLIENT_SECRET)

\* _perform_auth_flow: the credentials check, webbrowser.open(auth_url), the
\* construction of the HTTPServer and the entry of serve_forever.  Threads an
\* earlier listener left behind act on that earlier server object only.
FlowStart ==
    /\ apc = "flow"
    /\ IF ~Configured
       THEN /\ AuthReturn(None)
            /\ UNCHANGED <<net, shutdown_request, is_shut_down, killers>>
       ELSE /\ net' = net \o <<"browser accounts.spotify.com/authorize",
                               "listen 127.0.0.1:8888">>
            /\ shutdown_request' = FALSE
            /\ is_shut_down' = FALSE
            /\ killers' = <<>>
            /\ apc' = "serve"
            /\ UNCHANGED aret
    /\ UNCHANGED <<CLIENT_ID, CLIENT_SECRET, keyring, authorization_code, force_reauth,
                   refresh_token, kr_reads, kr_writes, flows, refresh_resp, served,
                   nauth>>
    /\ UNCHANGED <<cvars, fvars>>

\* CallbackHandler.do_GET: the authorization code after the request cb
CodeAfter(code, cb) == IF cb.has_code THEN cb.code ELSE code

\* One pass of the serve_forever loop that finds a request waiting while
\* __shutdown_request is not set, and do_GET up to the end of its response.
Serve ==
    /\ apc = "serve"
    /\ ~shutdown_request
    /\ Len(served) < MaxRequests
    /\ \E cb \in Callbacks :
        /\ served' = Append(served, cb)
        /\ authorization_code' = CodeAfter(authorization_code, cb)
    /\ apc' = "do_GET"
    /\ UNCHANGED <<CLIENT_ID, CLIENT_SECRET, keyring, force_reauth, refresh_token, net,
                   kr_reads, kr_writes, flows, refresh_resp, shutdown_request,
                   is_shut_down, killers, aret, nauth>>
    /\ UNCHANGED <<cvars, fvars>>

StopTheServerMutantInline ==
    /\ shutdown_request' = TRUE
    /\ UNCHANGED <<killers, apc>>
\* killer = threading.Thread(target=self.server.shutdown); killer.start(), and
\* the handler returns to the serve_forever loop
StopTheServer ==
    /\ killers' = Append(killers, "run")
    /\ apc' = "serve"
    /\ UNCHANGED shutdown_request

\* CallbackHandler.do_GET: its last statements
StartKiller ==
    /\ apc = "do_GET"
    /\ StopTheServer
    /\ UNCHANGED <<CLIENT_ID, CLIENT_SECRET, keyring, authorization_code, force_reauth,
                   refresh_token, net, kr_reads, kr_writes, flows, refresh_resp, served,
                   is_shut_down, aret, nauth>>
    /\ UNCHANGED <<cvars, fvars>>

\* A shutdown thread runs self.server.shutdown() up to its wait: it sets
\* __shutdown_request.
Shutdown ==
    /\ \E i \in 1..Len(killers) :
        /\ killers[i] = "run"
        /\ killers' = [killers EXCEPT ![i] = "wait"]
    /\ shutdown_request' = TRUE
    /\ UNCHANGED <<CLIENT_ID, CLIENT_SECRET, keyring, authorization_code, apc,
                   force_reauth, refresh_token, net, kr_reads, kr_writes, flows,
                   refresh_resp, served, is_shut_down, aret, nauth>>
    /\ UNCHANGED <<cvars, fvars>>

\* A shutdown thread finds __is_shut_down set: shutdown() returns and the
\* thread ends.
ShutdownReturn ==
    /\ is_shut_down
    /\ \E i \in 1..Len(killers) :
        /\ killers[i] = "wait"
        /\ killers' = [killers EXCEPT ![i] = "done"]
    /\ UNCHANGED <<CLIENT_ID, CLIENT_SECRET, keyring, authorization_code, apc,
                   force_reauth, refresh_token, net, kr_reads, kr_writes, flows,
                   refresh_resp, served, shutdown_request, is_shut_down, aret, nauth>>
    /\ UNCHANGED <<cvars, fvars>>

\* The serve_forever loop finds __shutdown_request set: it leaves the loop,
\* clears the flag, sets __is_shut_down, and _perform_auth_flow resumes.
StopServing ==
    /\ apc = "serve"
    /\ shutdown_request
    /\ shutdown_request' = FALSE
    /\ is_shut_down' = TRUE
    /\ apc' = "exchange"
    /\ UNCHANGED <<CLIENT_ID, CLIENT_SECRET, keyring, authorization_code, force_reauth,
                   refresh_token, net, kr_reads, kr_writes, flows, refresh_resp, served,
                   killers, aret, nauth>>
    /\ UNCHANGED <<cvars, fvars>>

\* _perform_auth_flow after serve_forever: the check of the code, the token
\* exchange and the storing of the refresh token
Exchange ==
    /\ apc = "exchange"
    /\ IF ~Truthy(authorization_code)
       THEN AuthReturn(None) /\ UNCHANGED <<net, keyring, kr_writes>>
       ELSE /\ net' = Append(net, "POST api/token grant_type=authorization_code")
            /\ \E ans \in TokenAnswers :
                IF ~ans.json
                THEN AuthRaise /\ UNCHANGED <<keyring, kr_writes>>
                ELSE IF ans.refresh_token # None
                THEN /\ keyring' = ans.refresh_token
                     /\ kr_writes' = Append(kr_writes, ans.refresh_token)
                     /\ AuthReturn(ans.access_token)
                ELSE AuthReturn(None) /\ UNCHANGED <<keyring, kr_writes>>
    /\ UNCHANGED <<CLIENT_ID, CLIENT_SECRET, authorization_code, force_reauth,
                   refresh_token, kr_reads, flows, refresh_resp, served,
                   shutdown_request, is_shut_down, killers, nauth>>
    /\ UNCHANGED <<cvars, fvars>>

NextAuth == GetAccessToken \/ ReadKeyring \/ RefreshExchange \/ FlowStart \/ Serve
            \/ StartKiller \/ Shutdown \/ ShutdownReturn \/ StopServing \/ Exchange

\* -------------------------------------------------------------- cli.py
Text(chars) == [text |-> chars]
Bool(b) == [bool |-> b]
Num(n) == [n |-> n]

\* str.lower() on the letters that occur
Lower(c) ==
    IF c = "A" THEN "a" ELSE IF c = "B" THEN "b" ELSE IF c = "M" THEN "m"
    ELSE IF c = "E" THEN "e" ELSE IF c = "N" THEN "n" ELSE IF c = "O" THEN "o"
    ELSE IF c = "T" THEN "t" ELSE c

LowerAll(chars) == [i \in 1..Len(chars) |-> Lower(chars[i])]

\* Playlist records as the API serves them.  An absent owner, tracks or
\* description is None.
Playlist(id, name, owner, collaborative, total, description) ==
    [id |-> id, name |-> name, owner |-> owner, collaborative |-> collaborative,
     total |-> total, description |-> description]

PlaylistRecords ==
    {Playlist("p1", <<"A", "b">>, Text(<<"u", "1">>), FALSE, Num(0), None),
     Playlist("p2", <<"b">>, Text(<<"u", "2">>), TRUE, Num(2), Text(<<"d">>)),
     Playlist("p3", <<"a">>, None, FALSE, None, Text(<<>>))}

\* The lists of up to n playlists, no playlist twice.
RECURSIVE ListsUpTo(_)
ListsUpTo(n) ==
    IF n = 0 THEN {<<>>}
    ELSE ListsUpTo(n - 1)
         \cup {Append(l, p) : l \in {m \in ListsUpTo(n - 1) : Len(m) = n - 1},
                              p \in PlaylistRecords}

Lists == {l \in ListsUpTo(MaxList) : \A i, j \in 1..Len(l) : l[i] = l[j] => i = j}

\* The command line's filter options.
Names == {None, Text(<<>>), Text(<<"a", ".">>), Text(<<"(", "a">>)}
Owners == {None, Text(<<"m", "e">>), Text(<<"N", "o", "t", "-", "M", "e">>),
           Text(<<"u", "2">>)}
Criteria ==
    [name : Names, owner : Owners, is_collaborative : {None, Bool(TRUE), Bool(FALSE)},
     empty : BOOLEAN, no_description : BOOLEAN]

\* bool(v) of an option value
OptionTruthy(v) ==
    IF v = None THEN FALSE
    ELSE IF "text" \in DOMAIN v THEN v.text # <<>>
    ELSE v.bool

\* re.compile(name, re.IGNORECASE) on patterns made of letters, "." and "(":
\* a "(" is never closed, which is a re.error.
Compiles(pattern) == \A i \in 1..Len(pattern) : pattern[i] # "("

\* One pattern character against one character of the subject, ignoring case
MatchesChar(pc, c) == pc = "." \/ Lower(pc) = Lower(c)

\* name_re.search(subject)
Search(pattern, subject) ==
    \E start \in 0..(Len(subject) - Len(pattern)) :
        \A j \in 1..Len(pattern) : MatchesChar(pattern[j], subject[start + j])

\* p.get('owner', {}).get('id')
OwnerId(p) == p.owner

\* p.get('tracks', {}).get('total', -1) == 0
HasNoTracks(p) == p.total # None /\ p.total.n = 0

\* not p.get('description')
HasNoDescription(p) == ~OptionTruthy(p.description)

AfterOwnerMutantAlwaysEmpty(pl, cs) == SelectSeq(pl, HasNoTracks)
\* The filters after the owner filter, in the order of the code
AfterOwner(pl, cs) ==
    LET byCollab == IF cs.is_collaborative # None
                    THEN SelectSeq(pl, LAMBDA p : p.collaborative = cs.is_collaborative.bool)
                    ELSE pl
        byEmpty == IF cs.empty THEN SelectSeq(byCollab, HasNoTracks) ELSE byCollab
    IN IF cs.no_description THEN SelectSeq(byEmpty, HasNoDescription) ELSE byEmpty

\* if owner.lower() == 'me' ... elif owner.lower() == 'not-me' ... else ...
OwnerFilter(pl, owner, current_user_id) ==
    IF LowerAll(owner.text) = <<"m", "e">>
    THEN SelectSeq(pl, LAMBDA p : OwnerId(p) = current_user_id)
    ELSE IF LowerAll(owner.text) = <<"n", "o", "t", "-", "m", "e">>
    THEN SelectSeq(pl, LAMBDA p : OwnerId(p) # current_user_id)
    ELSE SelectSeq(pl, LAMBDA p : OwnerId(p) = owner)

Filtered(kind, list, lookups, exc) ==
    [kind |-> kind, list |-> list, lookups |-> lookups, exc |-> exc]

InvalidNameMutantIgnore(cs) == FALSE
\* re.compile raises re.error
InvalidName(cs) == OptionTruthy(cs.name) /\ ~Compiles(cs.name.text)

\* if owner: current_user = client.get_current_user()
LooksUpUser(cs) == ~InvalidName(cs) /\ OptionTruthy(cs.owner)

\* _apply_filters_to_playlists(pl, client, **cs), me being how the call of
\* client.get_current_user() ends when it is made
ApplyFilters(pl, cs, me) ==
    IF InvalidName(cs) THEN Filtered("return", <<>>, 0, "")
    ELSE LET byName == IF OptionTruthy(cs.name)
                       THEN SelectSeq(pl, LAMBDA p : Search(cs.name.text, p.name))
                       ELSE pl
         IN IF OptionTruthy(cs.owner)
            THEN IF me.kind = "raise" THEN Filtered("raise", <<>>, 1, me.exc)
                 ELSE IF ~Truthy(me.value) THEN Filtered("return", <<>>, 1, "")
                 ELSE Filtered("return",
                               AfterOwner(OwnerFilter(byName, cs.owner, Text(me.value.id)),
                                          cs),
                               1, "")
            ELSE Filtered("return", AfterOwner(byName, cs), 0, "")

\* ------------------------------------- the client as the commands use it
\* How one call of self._request(rq) can end when the remote side answers
\* from `given`: the last attempt of every run of attempts.
Ends(rq, given) ==
    {e \in {[ans |-> a, out |-> RequestStep([rq EXCEPT !.retries = r], a)] :
                a \in given, r \in 0..rq.retries} :
        e.out.kind # "retry"}

\* raise_for_status() lets the answer pass
Succeeded(ans) == ans.status # 0 /\ ans.status < 400

\* How client.get_current_user() can end when _user_data is cached
CurrentUserOutcomes(cached) ==
    IF CacheMiss(cached)
    THEN {[kind |-> e.out.kind, value |-> e.out.value, exc |-> e.out.exc] :
             e \in LET rq == Request("GET", Endpoint("", "me", "", 0), None)
                   IN Ends(rq, AnswersFor(rq))}
    ELSE {[kind |-> "return", value |-> cached, exc |-> ""]}

\* self._user_data after client.get_current_user() ended as me
UserDataAfter(cached, me) == IF me.kind = "return" THEN me.value ELSE cached

\* How client.get_all_playlists() can end when the account follows `remote`:
\* with the items of the pages before the first page that was not delivered,
\* or with the ValueError of a Retry-After that is not a number.
AllPlaylistsOutcomes(remote) ==
    {[kind |-> "return", list |-> SubSeq(remote, 1, k), exc |-> ""] :
        k \in 0..Len(remote)}
    \cup {[kind |-> "raise", list |-> <<>>, exc |-> "ValueError"]}

\* "offset": (page - 1) * limit
PageOffsetMutantNext(page, limit) == page * limit
PageOffset(page, limit) == (page - 1) * limit

\* seq[start:end] for 0 <= start
Slice(seq, start, end) ==
    [i \in 1..(Min(end, Len(seq)) - Min(start, Len(seq))) |-> seq[start + i]]

\* get_playlists_page(page, limit): the request it makes
PlaylistsPageRequest(page, limit) ==
    Request("GET", Endpoint("", "me/playlists", "", 0),
            [limit |-> limit, offset |-> PageOffset(page, limit)])

\* The envelope the API serves for that request
PageEnvelope(remote, query) ==
    [items |-> Slice(remote, query.offset, query.offset + query.limit),
     total |-> Len(remote)]

\* How client.get_playlists_page(page, limit) can end
PlaylistsPageOutcomes(remote, page, limit) ==
    LET rq == PlaylistsPageRequest(page, limit)
    IN {[kind |-> e.out.kind, value |-> e.out.value, exc |-> e.out.exc] :
           e \in Ends(rq, AnswersTo({PageEnvelope(remote, rq.params)}))}

\* How the calls client.unfollow_playlist(p['id']) of the loop over `sel`
\* can go: "ok" and "failed" calls return, a "raise" ends the loop.
UnfollowEnd(e) ==
    IF UnfollowResult(e.out).kind = "raise" THEN "raise"
    ELSE IF Succeeded(e.ans) THEN "ok" ELSE "failed"

UnfollowEnds ==
    LET rq == Request("DELETE", Endpoint("", "playlists/{id}/followers", "p1", 0), None)
    IN {UnfollowEnd(e) : e \in Ends(rq, AnswersFor(rq))}

UnfollowRuns(sel) ==
    {run \in UNION {[1..n -> UnfollowEnds] : n \in 0..Len(sel)} :
        /\ \A i \in 1..Len(run) : run[i] = "raise" => i = Len(run)
        /\ Len(run) < Len(sel) => Len(run) > 0 /\ run[Len(run)] = "raise"}

\* The sub-list of l at the positions in S
RECURSIVE Pick(_, _, _)
Pick(l, S, n) ==
    IF n = 0 THEN <<>>
    ELSE IF n \in S THEN Append(Pick(l, S, n - 1), l[n]) ELSE Pick(l, S, n - 1)

\* What select_playlists_interactive(l) can return: the checked entries, or []
\* when nothing is there, nothing is checked or the prompt is interrupted
Picks(l) == {Pick(l, S, Len(l)) : S \in SUBSET (1..Len(l))}

\* filters_provided = any(filters.values())
FiltersProvided(cs) ==
    \/ OptionTruthy(cs.name) \/ OptionTruthy(cs.owner)
    \/ OptionTruthy(cs.is_collaborative) \/ cs.empty \/ cs.no_description

NoCriteria ==
    [name |-> None, owner |-> None, is_collaborative |-> None, empty |-> FALSE,
     no_description |-> FALSE]

NoFiltered == Filtered("", <<>>, 0, "")

Command(name, page, limit, dry_run, yes) ==
    [name |-> name, page |-> page, limit |-> limit, dry_run |-> dry_run, yes |-> yes]
NoCommand == Command("", 0, 0, FALSE, FALSE)

ApiCall(op, arg, end) == [op |-> op, arg |-> arg, end |-> end]

NoEarlier == [set |-> FALSE, playlists |-> <<>>, filters |-> NoCriteria,
              result |-> NoFiltered]

\* The fields of the client that the commands' calls leave alone or that this
\* level does not follow (the logs of the single HTTP attempts).
crest == <<cpc, call, req, answers, slept, wire, prim, reqs, all_playlists, url, params,
           failed_page, ret, me_first, me_cached, me_returns, me_http, ncalls, source>>

\* The ways the lookup of a filter call with criteria cs can end
LookupFor(cs) == IF LooksUpUser(cs) THEN CurrentUserOutcomes(user_data) ELSE {NoOutcome}

\* _apply_filters_to_playlists(input, client, **cs) is called and ends
RunFilter(input, cs, me) ==
    /\ playlists' = input
    /\ filtered_playlists' = ApplyFilters(input, cs, me)
    /\ user_data' = IF LooksUpUser(cs) THEN UserDataAfter(user_data, me) ELSE user_data

\* A call of _apply_filters_to_playlists on the client: on the list at hand or
\* on the result of the call before, with the criteria of the call before
\* and any owner criterion.
CallApplyFilters ==
    /\ command = NoCommand
    /\ nfilter < MaxFilterCalls
    /\ nfilter' = nfilter + 1
    /\ \E cs \in (IF nfilter = 0 THEN Criteria
                  ELSE {[filters EXCEPT !.owner = o] : o \in Owners}) :
        /\ filters' = cs
        /\ \E input \in {listing} \cup (IF filtered_playlists.kind = "return"
                                        THEN {filtered_playlists.list} ELSE {}) :
            \E me \in LookupFor(cs) : RunFilter(input, cs, me)
    /\ earlier' = IF nfilter = 0 THEN NoEarlier
                  ELSE [set |-> TRUE, playlists |-> playlists, filters |-> filters,
                        result |-> filtered_playlists]
    /\ UNCHANGED <<listing, command, branch, api, paged_playlists, playlists_to_unfollow,
                   confirm, cend>>
    /\ UNCHANGED <<crest, avars>>

\* The client calls of a command up to the end of its filter call
ApiBefore(f) ==
    <<ApiCall("get_all_playlists", None, "")>>
    \o (IF f.lookups = 1 THEN <<ApiCall("get_current_user", None, "")>> ELSE <<>>)

\* start_index = (page - 1) * limit
StartIndex(page, limit) == (page - 1) * limit

\* The list command
ListPlaylists ==
    /\ command = NoCommand
    /\ nfilter = 0
    /\ \E page \in 1..MaxPage, limit \in 1..MaxLimit, cs \in Criteria :
        /\ command' = Command("list", page, limit, FALSE, FALSE)
        /\ filters' = cs
        /\ IF FiltersProvided(cs)
           THEN /\ branch' = "filter"
                /\ \E all \in AllPlaylistsOutcomes(listing) :
                    IF all.kind = "raise"
                    THEN /\ api' = <<ApiCall("get_all_playlists", None, "raise")>>
                         /\ cend' = "raise"
                         /\ UNCHANGED <<user_data, playlists, filtered_playlists,
                                        paged_playlists>>
                    ELSE \E me \in LookupFor(cs) :
                        /\ RunFilter(all.list, cs, me)
                        /\ api' = ApiBefore(filtered_playlists')
                        /\ cend' = filtered_playlists'.kind
                        /\ paged_playlists' =
                              IF filtered_playlists'.kind = "raise" THEN <<>>
                              ELSE Slice(filtered_playlists'.list, StartIndex(page, limit),
                                         StartIndex(page, limit) + limit)
           ELSE /\ branch' = "page"
                /\ \E data \in PlaylistsPageOutcomes(listing, page, limit) :
                    /\ api' = <<ApiCall("get_playlists_page",
                                        ReqOf(PlaylistsPageRequest(page, limit)),
                                        data.kind)>>
                    /\ cend' = data.kind
                    /\ paged_playlists' = IF Truthy(data.value) THEN data.value.items
                                          ELSE <<>>
                /\ UNCHANGED <<user_data, playlists, filtered_playlists>>
    /\ UNCHANGED <<listing, earlier, nfilter, playlists_to_unfollow, confirm>>
    /\ UNCHANGED <<crest, avars>>

\* clean from `if not playlists_to_unfollow` on, the client calls made so far
\* being `before`
Unfollowing(before, sel, dry_run, yes) ==
    /\ playlists_to_unfollow' = sel
    /\ IF sel = <<>> \/ dry_run
       THEN api' = before /\ confirm' = "" /\ cend' = "return"
       ELSE \E answer \in (IF yes THEN {""} ELSE {"y", "n"}) :
            /\ confirm' = answer
            /\ IF answer = "n"
               THEN api' = before /\ cend' = "return"
               ELSE \E run \in UnfollowRuns(sel) :
                    /\ api' = before
                              \o [i \in 1..Len(run) |->
                                    ApiCall("unfollow_playlist", [id |-> sel[i].id],
                                            run[i])]
                    /\ cend' = IF run[Len(run)] = "raise" THEN "raise" ELSE "return"

\* The clean command
Clean ==
    /\ command = NoCommand
    /\ nfilter = 0
    /\ \E dry_run \in BOOLEAN, yes \in BOOLEAN, cs \in Criteria :
        /\ command' = Command("clean", 0, 0, dry_run, yes)
        /\ filters' = cs
        /\ branch' = IF FiltersProvided(cs) THEN "filter" ELSE "picker"
        /\ \E all \in AllPlaylistsOutcomes(listing) :
            IF all.kind = "raise"
            THEN /\ api' = <<ApiCall("get_all_playlists", None, "raise")>>
                 /\ cend' = "raise"
                 /\ UNCHANGED <<user_data, playlists, filtered_playlists,
                                playlists_to_unfollow, confirm>>
            ELSE IF FiltersProvided(cs)
            THEN \E me \in LookupFor(cs) :
                 /\ RunFilter(all.list, cs, me)
                 /\ IF filtered_playlists'.kind = "raise"
                    THEN /\ api' = ApiBefore(filtered_playlists')
                         /\ cend' = "raise"
                         /\ UNCHANGED <<playlists_to_unfollow, confirm>>
                    ELSE Unfollowing(ApiBefore(filtered_playlists'),
                                     filtered_playlists'.list, dry_run, yes)
            ELSE \E sel \in Picks(all.list) :
                 /\ Unfollowing(<<ApiCall("get_all_playlists", None, "")>>, sel,
                                dry_run, yes)
                 /\ UNCHANGED <<user_data, playlists, filtered_playlists>>
    /\ UNCHANGED <<listing, earlier, nfilter, paged_playlists>>
    /\ UNCHANGED <<crest, avars>>

NextFilter == CallApplyFilters

NextCli == ListPlaylists \/ Clean

\* No command has run and the filter engine has not been called.
CliRest ==
    /\ playlists = <<>>
    /\ filters = NoCriteria
    /\ filtered_playlists = NoFiltered
    /\ earlier = NoEarlier
    /\ nfilter = 0
    /\ command = NoCommand
    /\ branch = ""
    /\ api = <<>>
    /\ paged_playlists = <<>>
    /\ playlists_to_unfollow = <<>>
    /\ confirm = ""
    /\ cend = ""

CliIdle == listing = <<>> /\ CliRest

\* The account follows any list of playlists.
CliStart == listing \in Lists /\ CliRest

\* ------------------------------------------------------- specifications
\* The process has started: nothing is running, the environment and the
\* secret store are as the user left them.
AuthStart ==
    /\ authorization_code = None
    /\ apc = "idle"
    /\ force_reauth = FALSE
    /\ refresh_token = None
    /\ net = <<>>
    /\ kr_reads = 0
    /\ kr_writes = <<>>
    /\ flows = 0
    /\ refresh_resp = NoAnswer
    /\ served = <<>>
    /\ shutdown_request = FALSE
    /\ is_shut_down = FALSE
    /\ killers = <<>>
    /\ aret = NoAuthResult
    /\ nauth = 0

AuthInit ==
    /\ CLIENT_ID \in {None, [id |-> "client"]}
    /\ CLIENT_SECRET \in {None, [secret |-> "secret"]}
    /\ keyring \in {None, Token("rt1")}
    /\ AuthStart

\* main() got its token: the client is constructed with it.
AuthDone ==
    /\ CLIENT_ID = [id |-> "client"]
    /\ CLIENT_SECRET = [secret |-> "secret"]
    /\ keyring = Token("rt1")
    /\ AuthStart

\* The calls a command makes on its SpotifyClient.
InitClient == ClientInit /\ AuthDone /\ CliIdle

SpecClient == InitClient /\ [][NextClient]_vars

\* The calls of get_access_token in one process.
InitAuth == AuthInit /\ ClientInit /\ CliIdle

SpecAuth == InitAuth /\ [][NextAuth]_vars

\* The same with the threads scheduled fairly: the thread that runs
\* serve_forever and the handler keeps running, and so does every shutdown
\* thread.
SpecAuthFair ==
    /\ InitAuth /\ [][NextAuth]_vars
    /\ WF_vars(StartKiller) /\ WF_vars(Shutdown) /\ WF_vars(StopServing)

\* One command, on the client main() constructed.
InitCli == ClientInit /\ AuthDone /\ CliStart

SpecCli == InitCli /\ [][NextCli]_vars

\* Calls of the filter engine on one client.
InitFilter == CliStart /\ ClientInit /\ AuthDone

SpecFilter == InitFilter /\ [][NextFilter]_vars

\* ---------------------------------------------------------------- claims
Last(seq) == seq[Len(seq)]

Is2xx(ans) == ans.status >= 200 /\ ans.status < 300

Finished(op) == cpc = "idle" /\ call.op = op /\ ret.op = op

\* C1: unfollow_playlist returns False, and raises nothing, whenever the
\* DELETE failed (a non-2xx answer or a network error), and returns True only
\* when the DELETE got a 2xx answer.
C1_UnfollowReportsFailure ==
    Finished("unfollow_playlist") =>
        /\ ret.kind = "return"
        /\ ret.value.bool <=> Is2xx(Last(answers))

\* C2 as stated: get_current_user is memoized including failure: once the
\* first call has returned (a profile or the absent result), every later call
\* returns that same value and no further GET me is sent.
C2_MemoizedIncludingFailure ==
    me_first.set =>
        /\ me_http = me_first.http
        /\ Finished("get_current_user") /\ ret.kind = "return" => ret.value = me_first.value

\* C2 amended: get_current_user is memoized once a call has returned a
\* profile: every later call returns that same profile and no further GET me
\* is sent; the absent result is not memoized, so every call that returns it
\* has sent a GET me of its own.
C2_MemoizedProfile ==
    /\ me_cached.set =>
          /\ me_http = me_cached.http
          /\ call.op = "get_current_user" => cpc = "idle"
          /\ Finished("get_current_user") =>
                ret.kind = "return" /\ ret.value = me_cached.value
    /\ Finished("get_current_user") /\ ret.kind = "return" /\ ret.value = None =>
          Len(wire) >= 1

\* A profile was cached after a lookup that had returned absent, and a later
\* call was served from the cache.
C2_Witness ==
    /\ me_cached.set /\ me_returns >= 2
    /\ Finished("get_current_user") /\ Len(wire) = 0
    /\ me_first.value = None

\* C3: when the first GET me is answered with a profile, any number k >= 2 of
\* sequential get_current_user calls on the instance all return that profile
\* and exactly one HTTP request is sent in total.
C3_OneRequestForKCalls ==
    me_first.set /\ me_first.http = 1 /\ me_first.value # None =>
        /\ me_http = 1
        /\ call.op = "get_current_user" => cpc = "idle"
        /\ Finished("get_current_user") =>
              ret.kind = "return" /\ ret.value = me_first.value

\* Three calls have returned, the first GET me having delivered a profile.
C3_Witness ==
    /\ me_first.set /\ me_first.http = 1 /\ me_first.value # None
    /\ me_returns >= 3 /\ Finished("get_current_user")

\* C4 as stated: one call of the request primitive with the default retry
\* budget performs at most 3 HTTP attempts in total.
C4_AtMostThreeAttempts == Len(answers) <= 3

\* C4 amended: one call of the request primitive with the default retry budget
\* performs at most 4 HTTP attempts in total (the first and up to 3 retries),
\* whatever the server answers, and after the fourth attempt it returns.
C4_AtMostFourAttempts ==
    /\ Len(answers) <= DefaultRetries + 1
    /\ Len(wire) = Len(answers)
    /\ Len(answers) = DefaultRetries + 1 => cpc # "request" /\ prim.kind = "return"

\* An invocation was answered 429 on each of its four attempts.
C4_Witness ==
    /\ Len(answers) = 4 /\ prim.kind = "return"
    /\ \A i \in 1..4 : answers[i].status = 429

\* C5: a 429 received with retries remaining makes the request primitive sleep
\* exactly once, for the Retry-After value (5 seconds if the header is absent),
\* and then send the same method, endpoint, params and body again with one
\* retry credit fewer.
C5_SleepsAndRetriesOn429 ==
    [][(/\ cpc = "request"
        /\ Len(answers') = Len(answers) + 1
        /\ Last(answers').status = 429
        /\ req.retries > 0)
       => (/\ cpc' = "request"
           /\ Len(slept') = Len(slept) + 1
           /\ ~Last(answers').headers.has_retry_after => Last(slept') = 5
           /\ Last(answers').headers = Header(<<"2">>) => Last(slept') = 2
           /\ req' = [req EXCEPT !.retries = @ - 1])]_vars

\* C6: no exception propagates out of the request primitive or out of the
\* client methods built on it: every failed HTTP call (a non-2xx status, a 429
\* with the budget used up, a 429 whose Retry-After is absent or not an
\* integer, a network error) ends in the absent result.
C6_NoExceptionEscapes ==
    /\ prim.kind # "raise"
    /\ ret.kind # "raise"
    /\ prim.kind = "return" /\ ~Is2xx(Last(answers)) => prim.value = None

\* The listing in source order, and its first n items.
SourceItems == [i \in 1..source.N |-> i]
FirstItems(n) == [i \in 1..Min(n, source.N) |-> i]

\* ceil(N / L), and one (empty) page when the listing is empty.
NumPages ==
    IF source.N = 0 THEN 1 ELSE (source.N + source.L - 1) \div source.L

\* The request get_all_playlists is to make for page k.
PageRequest(k) ==
    IF k = 1
    THEN [method |-> "GET", endpoint |-> Endpoint("", "me/playlists", "", 0),
          params |-> [limit |-> 50]]
    ELSE [method |-> "GET",
          endpoint |-> Endpoint(API_BASE_URL, "me/playlists", "", (k - 1) * source.L),
          params |-> None]

\* C7: with every page request delivering its page, get_all_playlists returns
\* exactly the N items of the listing, each once and in source order across
\* page boundaries, and makes exactly one request per page: the first on
\* me/playlists with limit=50, each later one on the next link with no query.
C7_FullListing ==
    Finished("get_all_playlists") /\ failed_page = 0 =>
        /\ ret.kind = "return"
        /\ ret.value.list = SourceItems
        /\ Len(reqs) = NumPages
        /\ \A k \in 1..Len(reqs) : reqs[k] = PageRequest(k)

\* Three items served in a page of two and a page of one were all returned.
C7_Witness ==
    /\ Finished("get_all_playlists") /\ failed_page = 0
    /\ source.N = 3 /\ source.L = 2
    /\ ret.value.list = <<1, 2, 3>>

\* C8: if the request for page k fails, get_all_playlists makes no further
\* page request and returns, without raising, exactly the items of pages
\* 1..k-1.
C8_PartialListing ==
    Finished("get_all_playlists") /\ failed_page > 0 =>
        /\ Len(reqs) = failed_page
        /\ ret.kind = "return"
        /\ ret.value.list = FirstItems((failed_page - 1) * source.L)

AuthFinished == apc = "idle" /\ aret.kind # ""

InNet(what) == \E i \in 1..Len(net) : net[i] = what

\* C9: get_access_token runs the full interactive flow exactly when
\* force_reauth is true, or no refresh token is stored, or the refresh exchange
\* answered without an access_token, and at most once per call; with
\* force_reauth it neither reads the secret store nor attempts a refresh; when
\* the refresh succeeds it returns the refreshed access token without starting
\* the interactive flow.
C9_FlowExactlyWhenNeeded ==
    /\ flows <= 1
    /\ force_reauth =>
          kr_reads = 0 /\ ~InNet("POST api/token grant_type=refresh_token")
    /\ AuthFinished =>
          (flows = 1 <=>
              \/ force_reauth
              \/ kr_reads = 1 /\ refresh_token = None
              \/ refresh_resp.json /\ refresh_resp.access_token = None)
    /\ refresh_resp.json /\ refresh_resp.access_token # None =>
          /\ AuthFinished /\ aret = AuthEnded("return", refresh_resp.access_token)
          /\ flows = 0
          /\ net = <<"POST api/token grant_type=refresh_token">>

\* A stored token was refused by the refresh exchange and the interactive
\* flow that followed delivered an access token.
C9_Witness ==
    /\ AuthFinished /\ ~force_reauth
    /\ refresh_token # None
    /\ refresh_resp.json /\ refresh_resp.access_token = None
    /\ flows = 1
    /\ aret.kind = "return" /\ aret.value # None

\* C10: with the client id or the client secret not configured,
\* get_access_token makes no network call at all on any of its paths, the path
\* with a stored refresh token included, and returns failure.
C10_NoNetworkUnconfigured ==
    ~Configured =>
        /\ net = <<>>
        /\ AuthFinished => aret = AuthEnded("return", None)

\* C11: after a refresh-token exchange the stored refresh token equals the
\* refresh_token of the response when the response carries both access_token
\* and refresh_token, and is left unchanged in every other case (no
\* refresh_token, no access_token, no response at all); what is written to the
\* secret store is never the access token.
C11_RotationOnRefresh ==
    [][apc = "refresh" =>
          /\ keyring' = IF /\ refresh_resp'.json
                           /\ refresh_resp'.access_token # None
                           /\ refresh_resp'.refresh_token # None
                        THEN refresh_resp'.refresh_token
                        ELSE keyring
          /\ keyring' # keyring => kr_writes' = <<keyring'>>
          /\ keyring' = keyring => kr_writes' = <<>> \/ kr_writes' = <<keyring>>
          /\ \A i \in 1..Len(kr_writes') :
                kr_writes'[i] \in RefreshTokens /\ kr_writes'[i] \notin AccessTokens]_vars

\* The refresh exchange answered with both tokens and the stored refresh token
\* was replaced by the new one.
C11_Witness ==
    /\ AuthFinished /\ flows = 0
    /\ refresh_token = Token("rt1")
    /\ refresh_resp.json /\ refresh_resp.access_token # None
    /\ refresh_resp.refresh_token = Token("rt2")
    /\ keyring = Token("rt2") /\ kr_writes = <<Token("rt2")>>

\* C12: an interactive flow proceeds to the token-exchange POST only if a
\* callback request served by that flow's own listener carried a code
\* parameter; when no callback it served carried a code, the flow returns
\* failure with no token-endpoint call and no write to the secret store.  This
\* holds for every flow of a sequence of flows in one process.
C12_ExchangeOnlyWithOwnCode ==
    /\ InNet("POST api/token grant_type=authorization_code") =>
          \E i \in 1..Len(served) : served[i].has_code
    /\ (apc \in {"exchange", "idle"} /\ served # <<>>
         /\ \A i \in 1..Len(served) : ~served[i].has_code) =>
          /\ ~InNet("POST api/token grant_type=authorization_code")
          /\ kr_writes = <<>>
          /\ AuthFinished => aret = AuthEnded("return", None)

\* A criterion is set on the command line: a name or an owner is given, the
\* collaborative criterion is true or false, or a flag is on.
CriterionSet(cs) ==
    \/ cs.name # None /\ cs.name # Text(<<>>)
    \/ cs.owner # None
    \/ cs.is_collaborative # None
    \/ cs.empty
    \/ cs.no_description

\* C13: clean and list apply the filter engine whenever at least one filter
\* criterion is set on the command line, the collaborative criterion set to
\* false on its own included; clean enters the interactive picker, and list
\* uses the server's pagination, only when every criterion is unset.
C13_FilterWheneverCriterionSet ==
    command.name # "" =>
        /\ CriterionSet(filters) <=> branch = "filter"
        /\ branch = "filter" /\ api[1].end # "raise" =>
              filtered_playlists.kind # "" /\ playlists = SubSeq(listing, 1, Len(playlists))

Ids(l) == {l[i].id : i \in 1..Len(l)}

OwnerIs(cs, chars) == cs.owner # None /\ LowerAll(cs.owner.text) = chars

\* C14: the owner filters 'me' and 'not-me' partition any input list: for
\* every list and every outcome of the current-user lookup, no playlist id is
\* in both results and the union of the two results (by id) is the input
\* filtered with no owner criterion.
C14_OwnerPartition ==
    (/\ earlier.set
     /\ earlier.playlists = playlists
     /\ \/ OwnerIs(earlier.filters, <<"m", "e">>)
           /\ OwnerIs(filters, <<"n", "o", "t", "-", "m", "e">>)
        \/ OwnerIs(filters, <<"m", "e">>)
           /\ OwnerIs(earlier.filters, <<"n", "o", "t", "-", "m", "e">>)
     /\ earlier.result.kind = "return" /\ filtered_playlists.kind = "return")
    =>
        /\ Ids(earlier.result.list) \cap Ids(filtered_playlists.list) = {}
        /\ Ids(earlier.result.list) \cup Ids(filtered_playlists.list)
              = Ids(ApplyFilters(playlists, [filters EXCEPT !.owner = None],
                                 NoOutcome).list)

AllUnset(cs) == ~CriterionSet(cs)

\* C15: when every filter criterion is unset, _apply_filters_to_playlists
\* returns the playlists of its input in the same order, leaves the input list
\* as it was, and issues no API call.
C15_IdentityWhenUnset ==
    [][nfilter' = nfilter + 1 /\ AllUnset(filters') =>
          /\ filtered_playlists' = Filtered("return", playlists', 0, "")
          /\ playlists' = listing \/ playlists' = filtered_playlists.list
          /\ listing' = listing
          /\ user_data' = user_data]_vars

\* A list of two playlists went through the filter with nothing set.
C15_Witness ==
    /\ nfilter > 0 /\ AllUnset(filters) /\ filters.name = Text(<<>>)
    /\ Len(playlists) = 2
    /\ filtered_playlists.kind = "return" /\ filtered_playlists.list = playlists

\* C16: an invalid name-regex pattern makes _apply_filters_to_playlists return
\* the empty list for every input list and every setting of the other
\* criteria, before any current-user lookup is issued.
C16_InvalidPatternGivesEmpty ==
    [][nfilter' = nfilter + 1 /\ filters'.name = Text(<<"(", "a">>) =>
          /\ filtered_playlists' = Filtered("return", <<>>, 0, "")
          /\ user_data' = user_data]_vars

\* Two playlists were filtered with an invalid pattern and an owner criterion
\* on a client that has no profile yet: nothing came back, nothing was
\* looked up.
C16_Witness ==
    /\ nfilter > 0 /\ filters.name = Text(<<"(", "a">>) /\ filters.owner # None
    /\ Len(playlists) = 2
    /\ filtered_playlists = Filtered("return", <<>>, 0, "")
    /\ user_data = None

\* C17: filtering is idempotent: for every input list and every non-empty set
\* of criteria, applying _apply_filters_to_playlists to its own result with
\* the same criteria and the same client returns that same result, and a
\* result is always an order-preserving sub-list of the input.
C17_Idempotent ==
    /\ (/\ earlier.set /\ CriterionSet(filters) /\ filters = earlier.filters
        /\ earlier.result.kind = "return" /\ playlists = earlier.result.list)
       => /\ filtered_playlists.kind = "return"
          /\ filtered_playlists.list = earlier.result.list
    /\ filtered_playlists.kind = "return" => filtered_playlists.list \in Picks(playlists)

\* The playlists of l at the positions first..last, as far as they exist
Window(l, first, last) == [i \in 1..(Min(last, Len(l)) - Min(first - 1, Len(l))) |->
                              l[first - 1 + i]]

\* C18: get_playlists_page(page, limit) requests me/playlists with offset
\* (page-1)*limit and the given limit, so that page 1 starts at offset 0 and
\* page p covers the window (p-1)*limit+1 .. p*limit, adjacent to the windows
\* of pages p-1 and p+1 and overlapping neither; the filtered listing of the
\* list command shows the same window of the filtered result.
C18_PageWindows ==
    command.name = "list" =>
        /\ branch = "page" =>
              /\ api = <<ApiCall("get_playlists_page",
                                 [method |-> "GET",
                                  endpoint |-> Endpoint("", "me/playlists", "", 0),
                                  params |-> [limit |-> command.limit,
                                              offset |-> (command.page - 1)
                                                         * command.limit]],
                                 cend)>>
              /\ command.page = 1 => api[1].arg.params.offset = 0
              /\ paged_playlists # <<>> =>
                    paged_playlists = Window(listing,
                                             (command.page - 1) * command.limit + 1,
                                             command.page * command.limit)
        /\ branch = "filter" /\ cend = "return" =>
              paged_playlists = Window(filtered_playlists.list,
                                       (command.page - 1) * command.limit + 1,
                                       command.page * command.limit)

\* Page 2 of a listing of two playlists, one to a page, showed the second.
C18_Witness ==
    /\ command.name = "list" /\ command.page = 2 /\ command.limit = 1
    /\ branch = "page" /\ Len(listing) = 2
    /\ paged_playlists = <<listing[2]>>

\* C19: during one interactive flow the local listener handles exactly one
\* HTTP request: none is accepted between the return of the first handler and
\* the stop of the serve loop, so the authorization-code slot is written at
\* most once per flow and never after the flow has read it.
C19_SingleRequest ==
    /\ Len(served) <= 1
    /\ apc = "exchange" => Len(served) = 1
    /\ Cardinality({i \in 1..Len(served) : served[i].has_code}) <= 1

\* C20: once the listener has served one callback request, the serve loop
\* eventually stops and the flow resumes after serve_forever, the shutdown
\* thread being scheduled fairly; the handler does not wait for the shutdown:
\* it returns to the serve loop with the shutdown thread started and the
\* listener not yet shut down.
C20_ServeLoopStops ==
    /\ (apc \in {"serve", "do_GET"} /\ served # <<>>) ~> (apc = "exchange")
    /\ [][apc = "do_GET" /\ apc' # "do_GET" =>
             /\ apc' = "serve"
             /\ Len(killers') = Len(killers) + 1
             /\ killers'[Len(killers')] = "run"
             /\ ~is_shut_down']_vars

\* The listener served one request and was stopped by its shutdown thread,
\* which waited until the loop had ended.
C20_Witness ==
    /\ apc = "exchange" /\ Len(served) = 1
    /\ killers = <<"done">> /\ is_shut_down

\* The unfollow calls of the command, in the order they were made
Deletes == SelectSeq(api, LAMBDA c : c.op = "unfollow_playlist")

\* clean reached its unfollow loop: dry-run is off, the user confirmed or
\* --yes was given, and something is selected
Unfollows ==
    /\ ~command.dry_run
    /\ command.yes \/ confirm = "y"
    /\ playlists_to_unfollow # <<>>

\* C21: clean issues an unfollow DELETE only with dry-run off, the user having
\* confirmed (or --yes given) and a non-empty selection; on that path it
\* issues an unfollow for every selected playlist exactly once, in selection
\* order, going on after a failed unfollow; on every other path (dry-run,
\* declined confirmation, empty or interrupted selection) it issues none.
C21_UnfollowsExactlyTheSelection ==
    command.name = "clean" =>
        /\ Unfollows =>
              /\ cend = "return"
              /\ Len(Deletes) = Len(playlists_to_unfollow)
              /\ \A i \in 1..Len(Deletes) :
                    Deletes[i].arg = [id |-> playlists_to_unfollow[i].id]
        /\ ~Unfollows => Deletes = <<>>

\* The criteria are an owner given as a literal user id and nothing else.
LiteralOwnerOnly(cs) ==
    /\ cs.owner # None
    /\ LowerAll(cs.owner.text) # <<"m", "e">>
    /\ LowerAll(cs.owner.text) # <<"n", "o", "t", "-", "m", "e">>
    /\ ~CriterionSet([cs EXCEPT !.owner = None])

\* C22: with the owner criterion set to a literal user id (neither 'me' nor
\* 'not-me') and no other criterion, the filter result is exactly the input
\* playlists whose owner id equals that literal, the same whether the
\* current-user lookup succeeds or fails.
C22_LiteralOwner ==
    nfilter > 0 /\ LiteralOwnerOnly(filters) =>
        /\ filtered_playlists.kind = "return"
        /\ filtered_playlists.list
              = SelectSeq(playlists, LAMBDA p : p.owner = filters.owner)
====
